---- MODULE Spec2Model ----
(***************************************************************************)
(* State-machine model of the WebRTC -> RTMP relay (src/main.py,           *)
(* src/peerjs_client.py) in PeerJS mode: the signaling client's receive    *)
(* loop, the supervisor main_peerjs with its offer / candidate handlers,   *)
(* and the WebRTCReceiver (command channel and recording orchestrator).    *)
(*                                                                         *)
(* Coroutines are modelled at the granularity of asyncio: one action runs  *)
(* a coroutine from one suspension point (an await on the peer-session     *)
(* engine, on a recorder, on gather, on the websocket) to the next.  The   *)
(* peer-session engine, the recorders and the rendezvous server are the    *)
(* environment: their events and outcomes are nondeterministic.            *)
(***************************************************************************)
EXTENDS Integers, Sequences, FiniteSets, TLC

(***************************************************************************)
(* Bounds of the model.                                                    *)
(***************************************************************************)
MaxEvents    == 4   \* inputs to a session: command messages, tracks arriving
                    \* and ending, the channel closed by the peer, the
                    \* connection failing
MaxSessions  == 2   \* WebRTCReceiver objects created by handle_offer
MaxScript    == 3   \* add_url / remove_url commands of a replay

(***************************************************************************)
(* JSON values, as far as the code inspects them.                          *)
(***************************************************************************)
Null      == [k |-> "null"]
Num       == [k |-> "num"]                      \* some non-zero number
Str(s)    == [k |-> "str", s |-> s]
Dict(f)   == [k |-> "dict", f |-> f]
IsDict(v) == v.k = "dict"
\* dict.get(key): the value, or None
Get(d, key) == IF key \in DOMAIN d.f THEN d.f[key] ELSE Null
\* Python truthiness of a JSON value
Truthy(v) ==
    CASE v.k = "null" -> FALSE
      [] v.k = "num"  -> TRUE
      [] v.k = "str"  -> v.s # <<>>
      [] v.k = "dict" -> DOMAIN v.f # {}

(***************************************************************************)
(* Destination addresses are strings, modelled as sequences of tokens:     *)
(* "sp" is one whitespace character, "rtmp://" and "http://" are scheme    *)
(* prefixes, the rest is host text.                                        *)
(***************************************************************************)
RECURSIVE LStrip(_)
LStrip(s) == IF s # <<>> /\ Head(s) = "sp" THEN LStrip(Tail(s)) ELSE s
RECURSIVE RStrip(_)
RStrip(s) ==
    IF s # <<>> /\ s[Len(s)] = "sp" THEN RStrip(SubSeq(s, 1, Len(s) - 1)) ELSE s
\* str.strip()
Strip(s) == RStrip(LStrip(s))
\* url.startswith('rtmp://')
IsRtmp(s) == s # <<>> /\ s[1] = "rtmp://"

UA == <<"rtmp://", "a">>
UB == <<"rtmp://", "b">>
UH == <<"http://", "b">>
\* the url argument a command may carry: absent, or a string
UrlArgs ==
    { Null, Str(<<"sp">> \o UA \o <<"sp">>), Str(UB), Str(UH) }
\* --rtmp-url of the command line: absent or a destination
CliUrls == { Null, Str(UA) }
\* the rtmp destinations
Dests == { UA, UB }

\* the tracks the remote peer may offer: one video, one audio
TrackIds == { "video", "audio" }

(***************************************************************************)
(* Messages.                                                               *)
(***************************************************************************)
\* command messages on the data channel: text that is not JSON, JSON that is
\* not an object, or an object with an action and possibly a url
BadJson   == [form |-> "invalid", action |-> "", url |-> Null]
NonObject == [form |-> "nonobj", action |-> "", url |-> Null]
Cmd(a, u) == [form |-> "obj", action |-> a, url |-> u]
Commands ==
    { BadJson, NonObject }
    \cup { Cmd(a, Null) : a \in { "start", "stop", "list_urls", "status", "bogus" } }
    \cup { Cmd(a, u) : a \in { "add_url", "remove_url" }, u \in UrlArgs }

\* a response on the data channel (the fields the code fills; the others are
\* left at their defaults)
Resp(status, msg, url) ==
    [status |-> status, msg |-> msg, url |-> url, urls |-> <<>>,
     recording |-> FALSE, tracks |-> 0, active_recorders |-> 0]
NoResp == Resp("", "", <<>>)

VARIABLES
    cli,            \* main_peerjs: the rtmp_url argument
    sup,            \* main_peerjs: where the supervisor coroutine is
    ws,             \* PeerJSClient.ws: "none", "open", "closing", "closed"
    inbox,          \* the envelope received by the websocket, not yet read
    lis,            \* PeerJSClient._listen and the handler it awaits
    remote_peer_id, \* main_peerjs: remote_peer_id (Null when None)
    cur,            \* main_peerjs: receiver (0 when None, else index in rcv)
    outbox,         \* envelopes sent through the websocket by the last step
    rcv,            \* the WebRTCReceiver objects created so far
    recs,           \* the MediaRecorder objects created so far
    tasks,          \* coroutines suspended at an await
    nev,            \* number of inputs received so far
    done,           \* the command that has just completed, with its responses
    hist            \* the add_url / remove_url commands of a replay, in order

vars ==
    << cli, sup, ws, inbox, lis, remote_peer_id, cur, outbox,
       rcv, recs, tasks, nev, done, hist >>
sigVars == << cli, sup, ws, inbox, lis, remote_peer_id, cur >>

\* WebRTCReceiver.__init__
NewReceiver(url) ==
    [rtmp_urls |-> IF Truthy(url) THEN << url.s >> ELSE <<>>,
     recorders |-> << >>,          \* dict url -> recorder, as a function
     tracks |-> <<>>,
     recording_started |-> FALSE,
     dc |-> "none",                \* readyState of self.datachannel
     conn |-> "new",               \* pc.connectionState
     handlers |-> FALSE,           \* setup() has registered the handlers
     remote |-> FALSE,             \* pc has a remote description
     local |-> FALSE,              \* pc has a local description (the answer)
     arrived |-> {},               \* tracks the engine has announced
     ended |-> {},                 \* tracks whose ended event has fired
     candidates |-> {}]            \* remote ICE candidates the engine has taken

\* a MediaRecorder: st is "new", "starting", "started", "stopping", "stopped"
\* or "failed"; stops counts the calls of stop()
NewRecorder(r, url, trs) ==
    [r |-> r, url |-> url, tracks |-> trs, st |-> "new", stops |-> 0]

Range(s) == { s[i] : i \in DOMAIN s }
\* list.remove(x): the first occurrence goes
RECURSIVE Remove(_, _)
Remove(s, x) ==
    IF s = <<>> THEN s
    ELSE IF Head(s) = x THEN Tail(s) ELSE << Head(s) >> \o Remove(Tail(s), x)
\* kinds of coroutine that enter the orchestrator from outside
HandlerKinds == { "cmd", "ended", "close" }
NoCmd == Cmd("", Null)
Task(r, id, kind, pc) ==
    [r |-> r, id |-> id, kind |-> kind, tag |-> "", pc |-> pc, cmd |-> NoCmd,
     url |-> <<>>, rec |-> 0, out |-> <<>>, dropped |-> 0,
     att |-> << >>, snap |-> <<>>, nstop |-> 0, solo |-> TRUE]
NoDone == Task(0, 0, "none", "")

(***************************************************************************)
(* The orchestrator's code runs on a bundle M of the variables it touches, *)
(* so that one action can run a coroutine through several statements.      *)
(***************************************************************************)
Bundle == [rcv |-> rcv, recs |-> recs, tasks |-> tasks, done |-> NoDone]
\* A recorder object that nothing refers to any more and that is not running
\* is garbage: its slot is freed, and the next recorder created takes the
\* lowest free slot.
Free == [r |-> 0, url |-> <<>>, tracks |-> {}, st |-> "free", stops |-> 0]
Referenced(M, i) ==
    \/ \E r \in DOMAIN M.rcv : \E u \in DOMAIN M.rcv[r].recorders : M.rcv[r].recorders[u] = i
    \/ \E t \in M.tasks : t.rec = i
RECURSIVE Trim(_)
Trim(s) == IF s # <<>> /\ s[Len(s)] = Free THEN Trim(SubSeq(s, 1, Len(s) - 1)) ELSE s
Collect(M) ==
    Trim([i \in DOMAIN M.recs |->
            IF M.recs[i].st # "started" /\ ~Referenced(M, i) THEN Free ELSE M.recs[i]])
FreeSlot(rs) ==
    IF \E i \in DOMAIN rs : rs[i] = Free
    THEN CHOOSE i \in DOMAIN rs : rs[i] = Free /\ \A j \in 1..(i - 1) : rs[j] # Free
    ELSE Len(rs) + 1
Store(M) ==
    /\ rcv' = M.rcv
    /\ recs' = Collect(M)
    /\ tasks' = M.tasks
    /\ done' = M.done
    /\ outbox' = {}
Commit(M) == Store(M) /\ hist' = hist

\* a handler coroutine is identified by receiver, kind and id (commands) or
\* tag (the track that ended, the caller of close); a child of a gather also
\* by the destination it works on
Same(a, b) ==
    /\ a.r = b.r /\ a.id = b.id /\ a.kind = b.kind /\ a.tag = b.tag
    /\ (a.kind \in HandlerKinds \/ a.url = b.url)
Cur(M, t) == CHOOSE x \in M.tasks : Same(x, t)
Drop(M, t) == [M EXCEPT !.tasks = { x \in @ : ~Same(x, t) }]
Put(M, t) == [M EXCEPT !.tasks = { x \in @ : ~Same(x, t) } \cup { t }]
\* the handle_command coroutine on whose behalf t runs
Owner(M, t) == CHOOSE x \in M.tasks : x.r = t.r /\ x.id = t.id /\ x.kind = "cmd"
Children(ts, t, kind) ==
    { x \in ts : x.r = t.r /\ x.id = t.id /\ x.tag = t.tag /\ x.kind = kind }
Child(t, kind, url, rec) ==
    [Task(t.r, t.id, kind, "new") EXCEPT !.tag = t.tag, !.url = url, !.rec = rec]

\* send_response: sent only while the data channel is open, else dropped
DropsWhenClosed(M, t, resp) ==
    IF M.rcv[t.r].dc = "open"
    THEN Put(M, [Owner(M, t) EXCEPT !.out = Append(@, resp)])
    ELSE Put(M, [Owner(M, t) EXCEPT !.dropped = @ + 1])
send_response(M, t, resp) == DropsWhenClosed(M, t, resp)

\* handle_command returns: the coroutine ends
Finish(M, t) == [Drop(M, t) EXCEPT !.done = [Cur(M, t) EXCEPT !.pc = "done"]]

\* the outcome of a recorder start, noted on the command that asked for it
Outcome(M, t, oc) == Put(M, [Owner(M, t) EXCEPT !.att = (t.url :> oc) @@ @])

(***************************************************************************)
(* _start_recorder                                                         *)
(***************************************************************************)
\* return from _start_recorder: a task of gather ends; add_rtmp_url returns
\* to handle_command, which answers (main.py:106)
SrReturn(M, t) ==
    IF t.kind = "sr"
    THEN Drop(M, t)
    ELSE Finish(send_response(M, t, Resp("ok", "add_url", t.url)), t)

\* _start_recorder with except clauses that send nothing
SrFail_NoReply(M, t, oc, msg, url) == SrReturn(Outcome(M, t, oc), t)
\* main.py:191-192, 209-212, 221-227: the attempt has failed; the error is
\* reported and the coroutine returns
SrFail(M, t, oc, msg, url) ==
    SrReturn(send_response(Outcome(M, t, oc), t, Resp("error", msg, url)), t)

\* main.py:190-215: validate, create the recorder, attach the tracks, give up
\* without tracks, else call recorder.start() and wait for it.  bad holds the
\* addresses for which MediaRecorder(url, ...) raises FileNotFoundError
SrCreate(M, t, bad) ==
    LET r == t.r
        id == FreeSlot(M.recs)
        new == NewRecorder(r, t.url, Range(M.rcv[r].tracks))
        M1 == [M EXCEPT !.recs = IF id > Len(@) THEN Append(@, new) ELSE [@ EXCEPT ![id] = new]]
    IN  IF ~IsRtmp(t.url) THEN SrFail(M, t, "bad_scheme", "failed_start", t.url)
        ELSE IF t.url \in bad THEN SrFail(M, t, "ctor_fail", "cannot_connect", t.url)
        ELSE IF M.rcv[r].tracks = <<>> THEN SrFail(M1, t, "no_tracks", "no_tracks", <<>>)
        ELSE Put([M1 EXCEPT !.recs[id].st = "starting"],
                 [Cur(M1, t) EXCEPT !.pc = "sr_start", !.rec = id])

\* main.py:175-188: the coroutine waits for a frame of each video track
SrBegin(M, t, bad) ==
    IF "video" \in Range(M.rcv[t.r].tracks)
    THEN Put(M, [Cur(M, t) EXCEPT !.pc = "sr_probe"])
    ELSE SrCreate(M, t, bad)

\* _start_recorder registering its recorder as the only one
SrStarted_Exclusive(M, t, oc) ==
    LET c == Cur(M, t) IN
    IF oc = "ok"
    THEN LET M1 == [M EXCEPT !.recs[c.rec].st = "started",
                             !.rcv[c.r].recorders = (c.url :> c.rec)]
         IN  SrReturn(send_response(Outcome(M1, c, "ok"), c,
                                    Resp("ok", "started", c.url)), c)
    ELSE SrFail([M EXCEPT !.recs[c.rec].st = "failed"], c, "start_fail",
                "failed_start", c.url)
\* main.py:215-227: recorder.start() has returned ("ok") or raised
SrStarted(M, t, oc) ==
    LET c == Cur(M, t) IN
    IF oc = "ok"
    THEN LET M1 == [M EXCEPT !.recs[c.rec].st = "started",
                             !.rcv[c.r].recorders = (c.url :> c.rec) @@ @]
         IN  SrReturn(send_response(Outcome(M1, c, "ok"), c,
                                    Resp("ok", "started", c.url)), c)
    ELSE SrFail([M EXCEPT !.recs[c.rec].st = "failed"], c, "start_fail",
                "failed_start", c.url)

(***************************************************************************)
(* start_recording, stop_recording                                         *)
(***************************************************************************)
RespUrls(M, r, msg) == [Resp("ok", msg, <<>>) EXCEPT !.urls = M.rcv[r].rtmp_urls]

\* handle_command without the reply to start
StartReply_Silent(M, t) == Finish(M, t)
\* main.py:94-95 after start_recording has returned
StartReply(M, t) == Finish(send_response(M, t, RespUrls(M, t.r, "start")), t)

\* the tasks that gather makes of the _start_recorder coroutines run, in
\* order, as soon as the caller waits, each up to its first await
RECURSIVE StartChildren(_, _, _, _)
StartChildren(M, t, urls, bad) ==
    IF urls = <<>> THEN M
    ELSE LET c == Child(t, "sr", Head(urls), 0)
         IN  StartChildren(SrBegin(Put(M, c), c, bad), t, Tail(urls), bad)

\* main.py:229-243 up to the await of gather
start_recording(M, t, bad) ==
    LET me == M.rcv[t.r] IN
    IF me.rtmp_urls = <<>> \/ me.recording_started
    THEN StartReply(M, t)
    ELSE StartChildren(Put(M, [Cur(M, t) EXCEPT !.pc = "start_gather",
                                                !.snap = me.rtmp_urls]),
                       t, me.rtmp_urls, bad)

\* start_recording returning without setting the flag
StartTail_FlagUnset(M, t) == StartReply(M, t)
\* main.py:245: gather has returned
StartTail(M, t) == StartReply([M EXCEPT !.rcv[t.r].recording_started = TRUE], t)

\* what the caller of stop_recording does next: handle_command answers
\* (main.py:99), on_ended returns, close goes on to pc.close() (main.py:349)
AfterStop(M, t) ==
    CASE t.kind = "cmd"   -> Finish(send_response(M, t, Resp("ok", "stop", <<>>)), t)
      [] t.kind = "ended" -> Drop(M, t)
      [] t.kind = "close" -> Put(M, [Cur(M, t) EXCEPT !.pc = "close_pc"])

\* stop_recording that clears the mapping but leaves the flag set
StopTail_KeepsFlag(M, t) == AfterStop([M EXCEPT !.rcv[t.r].recorders = << >>], t)
\* main.py:264-265
StopTail(M, t) ==
    AfterStop([M EXCEPT !.rcv[t.r].recorders = << >>,
                        !.rcv[t.r].recording_started = FALSE], t)

\* recorder.stop() is called
CallStop(M, id) == [M EXCEPT !.recs[id].st = "stopping", !.recs[id].stops = @ + 1]

\* the tasks that gather makes of the _stop_recorder_safe coroutines
\* (main.py:268-271) run as soon as the caller waits: each calls
\* recorder.stop() and waits for it
StopChildren(M, t, rm) ==
    [M EXCEPT !.tasks = @ \cup { [Child(t, "ss", u, rm[u]) EXCEPT !.pc = "ss_stop"] :
                                  u \in DOMAIN rm },
              !.recs = [i \in DOMAIN @ |->
                          IF \E u \in DOMAIN rm : rm[u] = i
                          THEN [@[i] EXCEPT !.st = "stopping", !.stops = @ + 1]
                          ELSE @[i]]]

\* stop_recording without the test of recording_started
stop_recording_NoFlagTest(M, t) ==
    LET me == M.rcv[t.r] IN
    IF DOMAIN me.recorders = {} THEN StopTail(M, t)
    ELSE StopChildren(Put(M, [Cur(M, t) EXCEPT !.pc = "stop_gather",
                                               !.nstop = Cardinality(DOMAIN me.recorders)]),
                      t, me.recorders)
\* main.py:248-262 up to the await of gather (gather of nothing is done at once)
stop_recording(M, t) ==
    LET me == M.rcv[t.r] IN
    IF ~me.recording_started THEN AfterStop(M, t)
    ELSE IF DOMAIN me.recorders = {} THEN StopTail(M, t)
    ELSE StopChildren(Put(M, [Cur(M, t) EXCEPT !.pc = "stop_gather",
                                               !.nstop = Cardinality(DOMAIN me.recorders)]),
                      t, me.recorders)
\* recorder.stop() has returned or raised; both callers go on alike
\* (main.py:166-170, 270-274)
StopReturned(M, id) == [M EXCEPT !.recs[id].st = "stopped"]

(***************************************************************************)
(* add_rtmp_url, remove_rtmp_url                                           *)
(***************************************************************************)
\* add_rtmp_url without the test "url not in self.rtmp_urls"
add_rtmp_url_NoDupCheck(M, t, raw, bad) ==
    LET url == Strip(raw)
        me == M.rcv[t.r]
        t1 == [Cur(M, t) EXCEPT !.url = url]
        M1 == Put([M EXCEPT !.rcv[t.r].rtmp_urls = Append(@, url)], t1)
    IN  IF me.recording_started /\ me.tracks # <<>> THEN SrBegin(M1, t1, bad)
        ELSE SrReturn(M1, t1)

\* main.py:146-155, with the reply of handle_command (main.py:106)
add_rtmp_url(M, t, raw, bad) ==
    LET url == Strip(raw)
        me == M.rcv[t.r]
        t1 == [Cur(M, t) EXCEPT !.url = url]
        M1 == Put([M EXCEPT !.rcv[t.r].rtmp_urls = Append(@, url)], t1)
    IN  IF url \in Range(me.rtmp_urls) THEN SrReturn(Put(M, t1), t1)
        ELSE IF me.recording_started /\ me.tracks # <<>> THEN SrBegin(M1, t1, bad)
        ELSE SrReturn(M1, t1)

RemoveReply(M, t) == Finish(send_response(M, t, Resp("ok", "remove_url", t.url)), t)

\* main.py:157-167 up to the await of recorder.stop()
remove_rtmp_url(M, t, url) ==
    LET me == M.rcv[t.r]
        t1 == [Cur(M, t) EXCEPT !.url = url]
        M1 == Put([M EXCEPT !.rcv[t.r].rtmp_urls = Remove(@, url)], t1)
    IN  IF url \notin Range(me.rtmp_urls) THEN RemoveReply(Put(M, t1), t1)
        ELSE IF url \in DOMAIN me.recorders
        THEN CallStop(Put(M1, [t1 EXCEPT !.pc = "rm_stop", !.rec = me.recorders[url]]),
                      me.recorders[url])
        ELSE RemoveReply(M1, t1)

\* main.py:171: del self.recorders[url]; a KeyError reaches handle_command's
\* except clause (main.py:136-138)
RemoveTail(M, t) ==
    LET me == M.rcv[t.r] IN
    IF t.url \in DOMAIN me.recorders
    THEN RemoveReply([M EXCEPT !.rcv[t.r].recorders =
                            [u \in DOMAIN @ \ { t.url } |-> @[u]]], t)
    ELSE Finish(send_response(M, t, Resp("error", "exception", <<>>)), t)

(***************************************************************************)
(* handle_command                                                          *)
(***************************************************************************)
\* handle_command giving up without a response
Error_Silent(M, t, msg, url) == Finish(M, t)
\* main.py:108, 117, 131, 135, 138: an error response, and the handler returns
Error(M, t, msg, url) == Finish(send_response(M, t, Resp("error", msg, url)), t)

\* main.py:122-129
StatusReply(M, r) ==
    [Resp("ok", "status", <<>>) EXCEPT
        !.recording = M.rcv[r].recording_started,
        !.urls = M.rcv[r].rtmp_urls,
        !.tracks = Len(M.rcv[r].tracks),
        !.active_recorders = Cardinality(DOMAIN M.rcv[r].recorders)]

\* main.py:85-138, from the message to the first await or to the return
handle_command(M, t, c, bad) ==
    CASE c.form = "invalid" -> Error(M, t, "invalid_json", <<>>)
      [] c.form = "nonobj" -> Error(M, t, "exception", <<>>)
      [] c.form = "obj" /\ c.action = "start" -> start_recording(M, t, bad)
      [] c.form = "obj" /\ c.action = "stop" -> stop_recording(M, t)
      [] c.form = "obj" /\ c.action \in { "add_url", "remove_url" } ->
            IF ~Truthy(c.url) THEN Error(M, t, "url_required", <<>>)
            ELSE IF c.url.k # "str" THEN Error(M, t, "exception", <<>>)
            ELSE IF c.action = "add_url"
            THEN add_rtmp_url(M, t, Strip(c.url.s), bad)
            ELSE remove_rtmp_url(M, t, Strip(c.url.s))
      [] c.form = "obj" /\ c.action = "list_urls" ->
            Finish(send_response(M, t, RespUrls(M, t.r, "list_urls")), t)
      [] c.form = "obj" /\ c.action = "status" ->
            Finish(send_response(M, t, StatusReply(M, t.r)), t)
      [] OTHER -> Error(M, t, "unknown_action", << c.action >>)

Outcomes == { "ok", "raise" }
\* a session takes input until the process ends
Live(r) == r \in DOMAIN rcv /\ sup # "done"
InFlight(r) == { x \in tasks : x.r = r /\ x.kind \in HandlerKinds }
\* a handler that begins while another one is suspended overlaps it: neither
\* of the two runs solo
Begin(r) ==
    [Bundle EXCEPT !.tasks = { IF x \in InFlight(r) THEN [x EXCEPT !.solo = FALSE] ELSE x :
                                x \in @ }]
Solo(r, t) == [t EXCEPT !.solo = InFlight(r) = {}]

\* a message arrives on the data channel (main.py:302-304, 33-35)
Command(r, c, bad) ==
    /\ Live(r) /\ rcv[r].conn = "connected" /\ rcv[r].dc = "open"
    /\ nev < MaxEvents
    /\ LET t == Solo(r, [Task(r, nev + 1, "cmd", "run") EXCEPT !.cmd = c])
       IN  Commit(handle_command(Put(Begin(r), t), t, c, bad))
    /\ nev' = nev + 1
    /\ UNCHANGED sigVars

\* track.recv() has returned or raised (main.py:185-188)
SrProbeDone(t, ctor) ==
    /\ t.pc = "sr_probe"
    /\ Commit(SrCreate(Bundle, t, IF ctor = "raise" THEN { t.url } ELSE {}))
    /\ UNCHANGED << sigVars, nev >>

SrStartDone(t, oc) ==
    /\ t.pc = "sr_start"
    /\ Commit(SrStarted(Bundle, t, oc))
    /\ UNCHANGED << sigVars, nev >>

StartGatherDone(t) ==
    /\ t.pc = "start_gather" /\ Children(tasks, t, "sr") = {}
    /\ Commit(StartTail(Bundle, t))
    /\ UNCHANGED << sigVars, nev >>

SsStopDone(t) ==
    /\ t.pc = "ss_stop"
    /\ Commit(Drop(StopReturned(Bundle, t.rec), t))
    /\ UNCHANGED << sigVars, nev >>

StopGatherDone(t) ==
    /\ t.pc = "stop_gather" /\ Children(tasks, t, "ss") = {}
    /\ Commit(StopTail(Bundle, t))
    /\ UNCHANGED << sigVars, nev >>

RmStopDone(t) ==
    /\ t.pc = "rm_stop"
    /\ Commit(RemoveTail(StopReturned(Bundle, t.rec), t))
    /\ UNCHANGED << sigVars, nev >>

(***************************************************************************)
(* Events of the peer-session engine                                       *)
(***************************************************************************)
Engine(r) == Live(r) /\ rcv[r].handlers /\ rcv[r].remote /\ rcv[r].conn # "closed"

\* recorder.addTrack(track) on every registered recorder (main.py:50-54)
AttachToAll(M, r, tr) ==
    [M EXCEPT !.recs = [i \in DOMAIN @ |->
        IF \E u \in DOMAIN M.rcv[r].recorders : M.rcv[r].recorders[u] = i
        THEN [@[i] EXCEPT !.tracks = @ \cup { tr }] ELSE @[i]]]

\* main.py:37-54; the notice sent to the peer (main.py:43-47) changes no state
on_track(r, tr) ==
    /\ Engine(r) /\ tr \notin rcv[r].arrived /\ nev < MaxEvents
    /\ LET M1 == [Bundle EXCEPT !.rcv[r].tracks = Append(@, tr),
                                !.rcv[r].arrived = @ \cup { tr }]
       IN  Commit(IF rcv[r].recording_started THEN AttachToAll(M1, r, tr) ELSE M1)
    /\ nev' = nev + 1
    /\ UNCHANGED sigVars

\* main.py:56-65
on_ended(r, tr) ==
    /\ Live(r) /\ tr \in rcv[r].arrived \ rcv[r].ended /\ nev < MaxEvents
    /\ LET t == Solo(r, [Task(r, 0, "ended", "run") EXCEPT !.tag = tr])
           M1 == [Begin(r) EXCEPT !.rcv[r].tracks = Remove(@, tr),
                                  !.rcv[r].ended = @ \cup { tr }]
       IN  Commit(IF M1.rcv[r].tracks = <<>> THEN stop_recording(Put(M1, t), t) ELSE M1)
    /\ nev' = nev + 1
    /\ UNCHANGED sigVars

\* a step that completes no command and sends nothing through the websocket
Quiet == done' = NoDone /\ outbox' = {} /\ hist' = hist

\* the state of self.datachannel changes: the channel created in
\* receive_offer opens, or the remote peer opens a channel of its own, which
\* replaces it (main.py:28-35); later the channel closes
DataChannel(r, st) ==
    /\ \/ st = "open" /\ Engine(r) /\ rcv[r].conn = "connected" /\ rcv[r].dc = "connecting"
       \/ st = "closed" /\ Live(r) /\ rcv[r].dc = "open" /\ nev < MaxEvents
    /\ rcv' = [rcv EXCEPT ![r].dc = st]
    /\ nev' = IF st = "closed" THEN nev + 1 ELSE nev
    /\ Quiet
    /\ UNCHANGED << sigVars, recs, tasks >>

\* main.py:67-71: the connection state changes; on "failed" the handler
\* awaits pc.close()
on_connectionstatechange(r, st) ==
    /\ Engine(r) /\ rcv[r].local
    /\ \/ st = "connected" /\ rcv[r].conn = "new"
       \/ st = "failed" /\ rcv[r].conn \in { "new", "connected" } /\ nev < MaxEvents
    /\ rcv' = [rcv EXCEPT ![r].conn = st]
    /\ tasks' = IF st = "failed"
                THEN tasks \cup { Task(r, 0, "failed", "close_pc") } ELSE tasks
    /\ nev' = IF st = "failed" THEN nev + 1 ELSE nev
    /\ Quiet
    /\ UNCHANGED << sigVars, recs >>

\* PeerJSClient.send_candidate (peerjs_client.py:119-130)
send_candidate(r, dst) ==
    [type |-> "CANDIDATE", dst |-> dst, connectionId |-> Null, session |-> r]

\* on_icecandidate sending without looking at the remote peer id
on_icecandidate_Unchecked(r) ==
    /\ Engine(r) /\ ws = "open" /\ r = cur /\ lis.pc = "offer_answer"
    /\ outbox' = { send_candidate(r, remote_peer_id) }
    /\ done' = NoDone
    /\ UNCHANGED << sigVars, rcv, recs, tasks, nev, hist >>
\* main.py:73-83; the engine gathers candidates while the local description
\* is being set
on_icecandidate(r) ==
    /\ Engine(r) /\ ws = "open" /\ r = cur /\ lis.pc = "offer_answer"
    /\ outbox' = IF Truthy(remote_peer_id)
                 THEN { send_candidate(r, remote_peer_id) } ELSE {}
    /\ done' = NoDone
    /\ UNCHANGED << sigVars, rcv, recs, tasks, nev, hist >>

(***************************************************************************)
(* Signaling: envelopes, PeerJSClient, the handlers of main_peerjs         *)
(***************************************************************************)
P1 == Str(<< "peer1" >>)
P2 == Str(<< "peer2" >>)
ConnId == Str(<< "abc123" >>)
\* a session description {type, sdp}
SDesc == Dict([type |-> Str(<< "offer" >>), sdp |-> Str(<< "v=0" >>)])
Envelope(type, src, payload) ==
    Dict([type |-> Str(<< type >>), src |-> src, payload |-> payload])
\* the offer of a PeerJS peer: payload {sdp: {type, sdp}, type, connectionId}
PeerOffer(src) ==
    Envelope("OFFER", src, Dict([sdp |-> SDesc, type |-> Str(<< "media" >>),
                                 connectionId |-> ConnId]))
\* an offer whose payload.sdp itself holds sdp and connectionId
NestedOffer(src) ==
    Envelope("OFFER", src, Dict([sdp |-> Dict([sdp |-> SDesc, connectionId |-> ConnId]),
                                 connectionId |-> ConnId]))
\* an offer whose payload.sdp holds an empty description
EmptyOffer(src) ==
    Envelope("OFFER", src, Dict([sdp |-> Dict([connectionId |-> ConnId]),
                                 connectionId |-> ConnId]))
(***************************************************************************)
(* ICE candidates.  A candidate string is a sequence of tokens: the prefix *)
(* "candidate:", then "good" for the text of a well-formed candidate line  *)
(* ("1 1 UDP 2122252543 192.168.1.2 50000 typ host") or "junk" for text    *)
(* that is none.                                                           *)
(***************************************************************************)
Absent == [k |-> "absent"]
\* the object {candidate, sdpMid, sdpMLineIndex} with the members present
CandidateInit(c, mid, idx) ==
    LET all == [candidate |-> c, sdpMid |-> mid, sdpMLineIndex |-> idx]
    IN  Dict([x \in { y \in DOMAIN all : all[y] # Absent } |-> all[x]])
CandidateStrings ==
    { Absent, Str(<<>>), Str(<< "candidate:", "good" >>), Str(<< "good" >>),
      Str(<< "candidate:", "junk" >>), Num }
\* what a CANDIDATE envelope may carry as payload.candidate
CandidateData ==
    { CandidateInit(c, mid, idx) : c \in CandidateStrings,
                                   mid \in { Absent, Str(<< "0" >>) },
                                   idx \in { Absent, Num } }
    \cup { Str(<< "candidate:", "good" >>) }
CandidateEnvelope(cd) ==
    Envelope("CANDIDATE", P1, Dict([candidate |-> cd, type |-> Str(<< "media" >>)]))

\* aiortc's candidate_from_sdp (called at main.py:336) takes the line apart;
\* it raises on text that is no candidate line.  A prefix left on the text
\* ends up in the first field of the candidate.
Parses(text) == text # <<>> /\ text[Len(text)] = "good"
RTCIceCandidate(text, mid, idx) ==
    [candidate |-> text, sdpMid |-> mid, sdpMLineIndex |-> idx]

\* add_ice_candidate that parses the string as it came
add_ice_candidate_KeepsPrefix(candidate_data) ==
    LET candidate_str == IF IsDict(candidate_data) /\ "candidate" \in DOMAIN candidate_data.f
                         THEN candidate_data.f.candidate ELSE Str(<<>>)
    IN  IF ~Truthy(candidate_data) \/ ~IsDict(candidate_data) THEN Null
        ELSE IF ~Truthy(candidate_str) \/ candidate_str.k # "str" THEN Null
        ELSE IF ~Parses(candidate_str.s) THEN Null
        ELSE RTCIceCandidate(candidate_str.s, Get(candidate_data, "sdpMid"),
                             Get(candidate_data, "sdpMLineIndex"))
\* WebRTCReceiver.add_ice_candidate (main.py:319-340) up to the await: the
\* candidate handed to pc.addIceCandidate, or Null when nothing is handed
\* over (every exception is swallowed, main.py:342-344)
add_ice_candidate(candidate_data) ==
    LET candidate_str == IF IsDict(candidate_data) /\ "candidate" \in DOMAIN candidate_data.f
                         THEN candidate_data.f.candidate ELSE Str(<<>>)
        text == IF Head(candidate_str.s) = "candidate:"
                THEN Tail(candidate_str.s) ELSE candidate_str.s
    IN  IF ~Truthy(candidate_data) \/ ~IsDict(candidate_data) THEN Null
        ELSE IF ~Truthy(candidate_str) \/ candidate_str.k # "str" THEN Null
        ELSE IF ~Parses(text) THEN Null
        ELSE RTCIceCandidate(text, Get(candidate_data, "sdpMid"),
                             Get(candidate_data, "sdpMLineIndex"))

\* what the websocket may deliver: text that is not JSON, JSON that is not an
\* object, and envelopes
NotJson == [k |-> "text"]
Envelopes ==
    { NotJson, Num,
      Dict([type |-> Str(<< "OPEN" >>)]),
      PeerOffer(P1), NestedOffer(P1), EmptyOffer(P2),
      NestedOffer(Null) }   \* the last one names no source peer
    \cup { CandidateEnvelope(cd) : cd \in CandidateData }

\* PeerJSClient._handle_message (peerjs_client.py:62-104): the handler to call
\* and its arguments, or the exception raised
Dispatch(call, arg, src) == [call |-> call, arg |-> arg, src |-> src]
_handle_message(data) ==
    LET type == Get(data, "type")
        payload == IF "payload" \in DOMAIN data.f THEN data.f.payload ELSE Dict(<< >>)
        is(name) == type.k = "str" /\ type.s = << name >>
        src == Get(data, "src")
    IN  IF ~IsDict(data) THEN Dispatch("raise", Null, Null)
        ELSE IF is("OFFER") \/ is("ANSWER") \/ is("CANDIDATE")
        THEN IF ~IsDict(payload) THEN Dispatch("raise", Null, Null)
             ELSE IF is("OFFER") /\ Truthy(Get(payload, "sdp"))
             THEN Dispatch("offer", Get(payload, "sdp"), src)
             ELSE IF is("CANDIDATE") /\ Truthy(Get(payload, "candidate"))
             THEN Dispatch("candidate", Get(payload, "candidate"), src)
             ELSE Dispatch("none", Null, Null)   \* on_answer is never registered
        ELSE Dispatch("none", Null, Null)

\* PeerJSClient.send_answer (peerjs_client.py:106-117): its parameters besides
\* self, and the envelope it sends
SendAnswerParams == 2
send_answer(answer_sdp, dst_peer_id) ==
    [type |-> "ANSWER", dst |-> dst_peer_id, connectionId |-> Null, session |-> cur]

Idle == IF ws = "open" THEN "recv" ELSE "dead"
Lis(pc) == [pc |-> pc, src |-> Null, sdp |-> Null, connection_id |-> Null, cand |-> Null]

\* main.py:393-401: a new receiver, setup(), the description is taken apart
\* (a TypeError or KeyError ends the receive loop), setRemoteDescription is
\* awaited.  Gives the new rcv, cur and lis.
OfferCreate(rs, l) ==
    LET new == [NewReceiver(cli) EXCEPT !.handlers = TRUE]
        good == /\ IsDict(l.sdp)
                /\ Get(l.sdp, "sdp").k = "str" /\ Get(l.sdp, "type").k = "str"
    IN  [rcv |-> Append(rs, new), cur |-> Len(rs) + 1,
         lis |-> IF good THEN [l EXCEPT !.pc = "offer_remote"] ELSE Lis("dead")]

\* the websocket receives an envelope.  The loop reads one envelope at a
\* time and awaits its handler, so an envelope is delivered when the loop is
\* back at recv(); envelopes that no receive loop reads are not followed.
Deliver(e) ==
    /\ ws = "open" /\ sup = "run" /\ lis.pc = "recv" /\ inbox = <<>>
    /\ Len(rcv) < MaxSessions
    /\ inbox' = Append(inbox, e)
    /\ Quiet
    /\ UNCHANGED << cli, sup, ws, lis, remote_peer_id, cur, rcv, recs, tasks, nev >>

\* PeerJSClient._listen (peerjs_client.py:48-60) reads an envelope and runs
\* _handle_message, and with it handle_offer (main.py:366-401) or
\* handle_candidate (main.py:408-412), up to the first await
ListenRecv ==
    /\ lis.pc = "recv" /\ inbox # <<>> /\ sup = "run"
    /\ LET e == Head(inbox)
           d == IF e.k = "text" THEN Dispatch("none", Null, Null) ELSE _handle_message(e)
           l == [pc |-> "recv", src |-> d.src, sdp |-> Get(d.arg, "sdp"),
                 connection_id |-> Get(d.arg, "connectionId"), cand |-> Null]
           t == Solo(cur, [Task(cur, 0, "close", "run") EXCEPT !.tag = "offer"])
       IN  CASE d.call = "raise" ->
                    /\ lis' = Lis("dead")
                    /\ Quiet
                    /\ UNCHANGED << remote_peer_id, cur, rcv, recs, tasks >>
             [] d.call = "offer" /\ (~IsDict(d.arg) \/ ~Truthy(Get(d.arg, "sdp"))) ->
                    /\ remote_peer_id' = d.src
                    /\ Quiet
                    /\ UNCHANGED << lis, cur, rcv, recs, tasks >>
             [] d.call = "offer" /\ IsDict(d.arg) /\ Truthy(Get(d.arg, "sdp")) ->
                    /\ remote_peer_id' = d.src
                    /\ IF cur # 0
                       THEN /\ lis' = [l EXCEPT !.pc = "offer_close"]
                            /\ Commit(stop_recording(Put(Begin(cur), t), t))
                            /\ cur' = cur
                       ELSE /\ lis' = OfferCreate(rcv, l).lis
                            /\ rcv' = OfferCreate(rcv, l).rcv
                            /\ cur' = OfferCreate(rcv, l).cur
                            /\ Quiet
                            /\ UNCHANGED << recs, tasks >>
             [] d.call = "candidate" ->
                    \* main.py:408-412
                    /\ lis' = IF cur # 0 /\ add_ice_candidate(d.arg) # Null
                              THEN [Lis("candidate") EXCEPT !.cand = add_ice_candidate(d.arg)]
                              ELSE lis
                    /\ Quiet
                    /\ UNCHANGED << remote_peer_id, cur, rcv, recs, tasks >>
             [] OTHER ->
                    /\ Quiet
                    /\ UNCHANGED << lis, remote_peer_id, cur, rcv, recs, tasks >>
    /\ inbox' = Tail(inbox)
    /\ UNCHANGED << cli, sup, ws, nev >>

\* the await the receive loop's handler is suspended at returns or raises
ListenResume(oc) ==
    /\ lis.pc \in { "offer_remote", "offer_answer", "candidate" } /\ sup # "done"
    /\ CASE lis.pc = "offer_remote" ->
                \* main.py:291-311: setRemoteDescription; the command channel
                \* is created; createAnswer and setLocalDescription are awaited
                /\ lis' = IF oc = "ok" THEN [lis EXCEPT !.pc = "offer_answer"] ELSE Lis("dead")
                /\ rcv' = IF oc = "ok"
                          THEN [rcv EXCEPT ![cur].remote = TRUE, ![cur].dc = "connecting"]
                          ELSE rcv
                /\ outbox' = {}
         [] lis.pc = "offer_answer" ->
                \* main.py:311-317, 404: the answer is handed to send_answer
                \* together with the peer and the connection id
                LET args == << SDesc, lis.src, lis.connection_id >>
                    fits == oc = "ok" /\ Len(args) = SendAnswerParams
                IN  /\ lis' = IF fits THEN Lis(Idle) ELSE Lis("dead")
                    /\ outbox' = IF fits /\ ws = "open"
                                 THEN { send_answer(args[1], args[2]) } ELSE {}
                    /\ rcv' = IF oc = "ok" THEN [rcv EXCEPT ![cur].local = TRUE] ELSE rcv
         [] lis.pc = "candidate" ->
                \* main.py:340-344: addIceCandidate; a failure is swallowed
                /\ lis' = Lis(Idle)
                /\ outbox' = {}
                /\ rcv' = IF oc = "ok"
                          THEN [rcv EXCEPT ![cur].candidates = @ \cup { lis.cand }]
                          ELSE rcv
    /\ done' = NoDone
    /\ UNCHANGED << cli, sup, ws, inbox, remote_peer_id, cur, recs, tasks, nev, hist >>

(***************************************************************************)
(* WebRTCReceiver.close, and the supervisor main_peerjs                    *)
(***************************************************************************)
\* pc.close() has returned (main.py:349-350, 71).  After close() the caller
\* goes on: handle_offer creates the next receiver (main.py:393-401),
\* main_peerjs returns and asyncio.run cancels what is left.
ClosePcDone(t) ==
    /\ t.pc = "close_pc"
    /\ LET rs == [rcv EXCEPT ![t.r].conn = "closed", ![t.r].dc = "closed"] IN
       CASE t.kind = "close" /\ t.tag = "offer" ->
                /\ rcv' = OfferCreate(rs, lis).rcv
                /\ cur' = OfferCreate(rs, lis).cur
                /\ lis' = OfferCreate(rs, lis).lis
                /\ tasks' = tasks \ { t }
                /\ sup' = sup
         [] t.kind = "close" /\ t.tag # "offer" ->
                /\ rcv' = rs
                /\ sup' = "done"
                /\ tasks' = {}
                /\ lis' = Lis("dead")
                /\ cur' = cur
         [] OTHER ->
                /\ rcv' = rs
                /\ tasks' = tasks \ { t }
                /\ UNCHANGED << sup, lis, cur >>
    /\ Quiet
    /\ UNCHANGED << cli, ws, inbox, remote_peer_id, recs, nev >>

\* main.py:419: peerjs.connect() returns and the receive loop is started
\* (peerjs_client.py:42-46); or it raises, and with no websocket and no
\* receiver the finally clause has nothing to do (main.py:438-443)
Connect(oc) ==
    /\ sup = "connect"
    /\ sup' = IF oc = "ok" THEN "run" ELSE "done"
    /\ ws' = IF oc = "ok" THEN "open" ELSE ws
    /\ lis' = IF oc = "ok" THEN Lis("recv") ELSE lis
    /\ Quiet
    /\ UNCHANGED << cli, inbox, remote_peer_id, cur, rcv, recs, tasks, nev >>

\* main.py:428-434: the conditions on which the loop is left
StreamEnded(r) ==
    \/ rcv[r].conn = "closed"
    \/ /\ Len(rcv[r].tracks) = 0
       /\ rcv[r].recording_started = FALSE
       /\ Cardinality(DOMAIN rcv[r].recorders) > 0

\* main.py:440-443, peerjs_client.py:132-136: the finally clause closes the
\* websocket (a receive loop waiting for an envelope ends) and then the
\* receiver, if there is one: close() calls stop_recording (main.py:348)
Finally(why) ==
    /\ ws' = "closed"
    /\ inbox' = <<>>
    /\ LET t == Solo(cur, [Task(cur, 0, "close", "run") EXCEPT !.tag = why]) IN
       IF cur = 0
       THEN /\ sup' = "done"
            /\ lis' = Lis("dead")
            /\ Quiet
            /\ UNCHANGED << rcv, recs, tasks >>
       ELSE /\ sup' = "closing"
            /\ lis' = IF lis.pc = "recv" THEN Lis("dead") ELSE lis
            /\ Commit(stop_recording(Put(Begin(cur), t), t))
    /\ UNCHANGED << cli, remote_peer_id, cur, nev >>

\* main.py:426-434: the loop is left
Break == sup = "run" /\ cur # 0 /\ StreamEnded(cur) /\ Finally("break")

\* main.py:436-437: the process is interrupted
Interrupt == sup = "run" /\ Finally("interrupt")

(***************************************************************************)
(* The specification                                                       *)
(***************************************************************************)
Init ==
    /\ cli \in CliUrls
    /\ sup = "connect"
    /\ ws = "none"
    /\ inbox = <<>>
    /\ lis = Lis("off")
    /\ remote_peer_id = Null
    /\ cur = 0
    /\ outbox = {}
    /\ rcv = <<>>
    /\ recs = <<>>
    /\ tasks = {}
    /\ nev = 0
    /\ done = NoDone
    /\ hist = <<>>

Next ==
    \/ \E oc \in Outcomes : Connect(oc)
    \/ \E e \in Envelopes : Deliver(e)
    \/ ListenRecv
    \/ \E oc \in Outcomes : ListenResume(oc)
    \/ Break
    \/ Interrupt
    \/ \E r \in DOMAIN rcv, c \in Commands, bad \in SUBSET Dests : Command(r, c, bad)
    \/ \E r \in DOMAIN rcv, tr \in TrackIds : on_track(r, tr)
    \/ \E r \in DOMAIN rcv, tr \in TrackIds : on_ended(r, tr)
    \/ \E r \in DOMAIN rcv, st \in { "open", "closed" } : DataChannel(r, st)
    \/ \E r \in DOMAIN rcv, st \in { "connected", "failed" } : on_connectionstatechange(r, st)
    \/ \E r \in DOMAIN rcv : on_icecandidate(r)
    \/ \E t \in tasks, ctor \in Outcomes : SrProbeDone(t, ctor)
    \/ \E t \in tasks, oc \in Outcomes : SrStartDone(t, oc)
    \/ \E t \in tasks : StartGatherDone(t)
    \/ \E t \in tasks : SsStopDone(t)
    \/ \E t \in tasks : StopGatherDone(t)
    \/ \E t \in tasks : RmStopDone(t)
    \/ \E t \in tasks : ClosePcDone(t)

Spec == Init /\ [][Next]_vars

(***************************************************************************)
(* Replay: add_url / remove_url commands executed one after another on an  *)
(* established session, each run to completion before the next arrives,    *)
(* with or without a recording started before the first of them.           *)
(***************************************************************************)
ReplayArgs == { Str(<<"sp">> \o UA \o <<"sp">>), Str(UA), Str(UB) }
ReplayCommands == { Cmd(a, u) : a \in { "add_url", "remove_url" }, u \in ReplayArgs }

\* a session after its negotiation, connected, its command channel open
ReplayInit ==
    /\ cli \in CliUrls
    /\ sup = "run" /\ ws = "open" /\ inbox = <<>> /\ lis = Lis("dead")
    /\ remote_peer_id = P1 /\ cur = 1 /\ outbox = {}
    /\ \E trs \in { <<>>, << "video" >> } :
          rcv = << [NewReceiver(cli) EXCEPT !.handlers = TRUE, !.remote = TRUE,
                        !.local = TRUE, !.conn = "connected", !.dc = "open",
                        !.tracks = trs, !.arrived = Range(trs)] >>
    /\ recs = <<>> /\ tasks = {}
    /\ nev = Len(rcv[1].tracks)
    /\ done = NoDone /\ hist = <<>>

Quiescent(r) == InFlight(r) = {} /\ rcv[r].conn = "connected" /\ rcv[r].dc = "open"

ReplayStart(bad) ==
    /\ Quiescent(1) /\ hist = <<>> /\ ~rcv[1].recording_started
    /\ LET t == [Task(1, 1, "cmd", "run") EXCEPT !.cmd = Cmd("start", Null)]
       IN  Commit(handle_command(Put(Bundle, t), t, Cmd("start", Null), bad))
    /\ UNCHANGED << sigVars, nev >>

ReplayCommand(c, bad) ==
    /\ Quiescent(1) /\ Len(hist) < MaxScript
    /\ LET t == [Task(1, Len(hist) + 2, "cmd", "run") EXCEPT !.cmd = c]
       IN  Store(handle_command(Put(Bundle, t), t, c, bad))
    /\ hist' = Append(hist, c)
    /\ UNCHANGED << sigVars, nev >>

ReplayNext ==
    \/ \E bad \in SUBSET Dests : ReplayStart(bad)
    \/ \E c \in ReplayCommands, bad \in SUBSET Dests : ReplayCommand(c, bad)
    \/ \E t \in tasks, ctor \in Outcomes : SrProbeDone(t, ctor)
    \/ \E t \in tasks, oc \in Outcomes : SrStartDone(t, oc)
    \/ \E t \in tasks : StartGatherDone(t)
    \/ \E t \in tasks : RmStopDone(t)

ReplaySpec == ReplayInit /\ [][ReplayNext]_vars

(***************************************************************************)
(* Serial operation: on an established session the commands and the track  *)
(* events arrive one at a time, each after the handler of the one before   *)
(* has completed.                                                          *)
(***************************************************************************)
SerialInit == ReplayInit /\ rcv[1].tracks = <<>>

SerialCommand(c, bad) == Quiescent(1) /\ Command(1, c, bad)
SerialTrack(tr) == Quiescent(1) /\ on_track(1, tr)
SerialEnded(tr) == Quiescent(1) /\ on_ended(1, tr)

SerialNext ==
    \/ \E c \in Commands, bad \in SUBSET Dests : SerialCommand(c, bad)
    \/ \E tr \in TrackIds : SerialTrack(tr)
    \/ \E tr \in TrackIds : SerialEnded(tr)
    \/ \E t \in tasks, ctor \in Outcomes : SrProbeDone(t, ctor)
    \/ \E t \in tasks, oc \in Outcomes : SrStartDone(t, oc)
    \/ \E t \in tasks : StartGatherDone(t)
    \/ \E t \in tasks : SsStopDone(t)
    \/ \E t \in tasks : StopGatherDone(t)
    \/ \E t \in tasks : RmStopDone(t)

SerialSpec == SerialInit /\ [][SerialNext]_vars

(***************************************************************************)
(* Candidates: CANDIDATE envelopes read by the receive loop and handed to  *)
(* handle_candidate, before any session exists or on a negotiated session. *)
(***************************************************************************)
CandidateSpecInit ==
    /\ cli \in CliUrls
    /\ sup = "run" /\ ws = "open" /\ inbox = <<>> /\ lis = Lis("recv")
    /\ outbox = {} /\ recs = <<>> /\ tasks = {}
    /\ \/ cur = 0 /\ remote_peer_id = Null /\ rcv = <<>>
       \/ /\ cur = 1 /\ remote_peer_id = P1
          /\ \E trs \in { <<>>, << "video" >> } :
                rcv = << [NewReceiver(cli) EXCEPT !.handlers = TRUE, !.remote = TRUE,
                              !.local = TRUE, !.conn = "connected", !.dc = "open",
                              !.tracks = trs, !.arrived = Range(trs)] >>
    /\ nev = IF rcv = <<>> THEN 0 ELSE Len(rcv[1].tracks)
    /\ done = NoDone /\ hist = <<>>

CandidateSpecNext ==
    \/ \E cd \in CandidateData : Deliver(CandidateEnvelope(cd))
    \/ ListenRecv
    \/ \E oc \in Outcomes : ListenResume(oc)

CandidateSpec == CandidateSpecInit /\ [][CandidateSpecNext]_vars

(***************************************************************************)
(* The claims                                                              *)
(***************************************************************************)
AllUrls == { UA, UB, UH }
\* the live Recorders of a destination: started, and not asked to stop
LiveRecs(r, u) ==
    { i \in DOMAIN recs : recs[i].r = r /\ recs[i].url = u /\ recs[i].st = "started" }

\* C1: in every reachable state each destination address of a session has at
\* most one live Recorder (one that was started and has not been stopped),
\* also when two start commands overlap.
C1_OneLivePerDestination ==
    \A r \in DOMAIN rcv : \A u \in AllUrls : Cardinality(LiveRecs(r, u)) <= 1

\* the address a url argument names: the string without its whitespace
Addr(raw) == SelectSeq(raw, LAMBDA x : x # "sp")
\* the commands of the replay that name address a
OpsOn(a) == { i \in DOMAIN hist : Addr(hist[i].url.s) = a }
LastOn(a) == hist[CHOOSE i \in OpsOn(a) : \A j \in OpsOn(a) : j <= i]
\* the destination set after replaying only the last command of each address
LastOnly ==
    { a \in AllUrls : IF OpsOn(a) = {} THEN a \in Range(NewReceiver(cli).rtmp_urls)
                                       ELSE LastOn(a).action = "add_url" }

\* C2: after any sequence of add_url / remove_url commands executed one after
\* another, the destination set is the set obtained by replaying only the
\* last add or remove of each address: a duplicate add and the removal of an
\* absent address change nothing.
C2_ReplayLastOnly == Range(rcv[1].rtmp_urls) = LastOnly

\* a replay of an add, a duplicate add of the same address written
\* differently, and the removal of an absent address, while recording
C2_Witness ==
    /\ Len(hist) = 3 /\ tasks = {} /\ rcv[1].recording_started
    /\ hist[1].action = "add_url" /\ hist[2].action = "add_url"
    /\ hist[1].url # hist[2].url /\ Addr(hist[1].url.s) = Addr(hist[2].url.s)
    /\ hist[3].action = "remove_url" /\ Addr(hist[3].url.s) \notin Range(rcv[1].rtmp_urls)
    /\ Range(rcv[1].rtmp_urls) = { Addr(hist[1].url.s) }

\* the receive loop is about to read, or is handling, an offer of peer1 that
\* carries the connection id and a session description
OffersOfPeer1 == { PeerOffer(P1), NestedOffer(P1) }
ReadsOffer ==
    /\ lis.pc = "recv" /\ inbox # <<>> /\ Head(inbox) \in OffersOfPeer1
    /\ inbox' = Tail(inbox) /\ sup' = "run"
\* the answer has been created and set as the local description
AnswerReady == lis.pc = "offer_answer" /\ ~rcv[cur].local /\ rcv'[cur].local
AnswerSent(dst, c) ==
    \E m \in outbox' : m.type = "ANSWER" /\ m.dst = dst /\ m.connectionId = c

\* C3: for an inbound OFFER that carries a connectionId c and a session
\* description, the relay sends an ANSWER envelope addressed to the offer's
\* source peer whose payload contains connectionId = c: the step in which the
\* offer's handler ends, the engine having made the answer, sends it.
C3_AnswerCarriesConnectionId ==
    [][ ((ReadsOffer \/ AnswerReady) /\ ws = "open" /\ lis'.pc \in { "recv", "dead" })
            => AnswerSent(P1, ConnId) ]_vars

\* the error responses of a completed command that name destination u
ErrorsNaming(t, u) ==
    { i \in DOMAIN t.out : t.out[i].status = "error" /\ t.out[i].url = u }
\* a start command has completed whose start_recording ran the recorder
\* starts, the session having a track
StartCompleted ==
    /\ done.kind = "cmd" /\ done.cmd.action = "start" /\ done.snap # <<>>
    /\ rcv[done.r].tracks # <<>>

\* C4: when start_recording runs with at least one active track and the
\* recorder fails to start for some destinations, then after it completes
\* every destination whose start succeeded has a live Recorder, every
\* destination whose start failed has none, exactly one error response names
\* each failed destination (and none a successful one), and start_recording
\* does not raise: handle_command answers ok and recording is active.
C4_PartialStartFailure ==
    StartCompleted =>
        /\ \A u \in Range(done.snap) :
              /\ u \in DOMAIN done.att
              /\ done.att[u] = "ok" =>
                    /\ u \in DOMAIN rcv[done.r].recorders
                    /\ LiveRecs(done.r, u) = { rcv[done.r].recorders[u] }
                    /\ ErrorsNaming(done, u) = {}
              /\ done.att[u] # "ok" =>
                    /\ u \notin DOMAIN rcv[done.r].recorders
                    /\ LiveRecs(done.r, u) = {}
                    /\ Cardinality(ErrorsNaming(done, u)) = 1
        /\ done.out[Len(done.out)] = [Resp("ok", "start", <<>>) EXCEPT !.urls = done.snap]
        /\ rcv[done.r].recording_started

\* a start over two destinations of which one has started and one has failed
C4_Witness ==
    /\ StartCompleted /\ Len(done.snap) = 2
    /\ \E u, v \in Range(done.snap) :
          /\ done.att[u] = "ok" /\ LiveRecs(done.r, u) # {}
          /\ done.att[v] # "ok" /\ LiveRecs(done.r, v) = {}

\* the step is taken by the handler of a command with action a: the command
\* completes in it, or is suspended after it
StepOf(a) ==
    \/ done'.kind = "cmd" /\ done'.cmd.action = a
    \/ \E t \in tasks' : t.kind = "cmd" /\ t.cmd.action = a
\* a stop command has just completed
StopCompleted == done.kind = "cmd" /\ done.cmd.action = "stop"

\* C5: running start_recording to completion and then stop_recording to
\* completion leaves the destination set as it was before the start (no step
\* of either changes it), and when the stop has completed no destination has
\* a Recorder: the mapping is empty, no Recorder is live, status would report
\* active_recorders = 0, and the recording-active flag is false.
C5_StartThenStop ==
    [][ /\ (StepOf("start") \/ StepOf("stop")) =>
                rcv'[1].rtmp_urls = rcv[1].rtmp_urls
        /\ StopCompleted' =>
                /\ rcv'[1].recorders = << >>
                /\ \A i \in DOMAIN recs' : recs'[i].st # "started"
                /\ StatusReply([rcv |-> rcv'], 1).active_recorders = 0
                /\ ~rcv'[1].recording_started ]_vars

\* a stop command has completed that stopped the Recorder a start command
\* had started, the session having a destination and a track
C5_Witness ==
    /\ StopCompleted /\ done.nstop >= 1
    /\ rcv[1].rtmp_urls # <<>> /\ rcv[1].tracks # <<>>
    /\ rcv[1].recorders = << >> /\ ~rcv[1].recording_started

\* the orchestrator state of session r that stop_recording could touch
Orchestrator(rs, r) ==
    << rs[r].rtmp_urls, rs[r].tracks, rs[r].recorders, rs[r].recording_started >>
\* the step receives a stop command on session r while the flag is false
StopWhileIdle(r) ==
    /\ r \in DOMAIN rcv /\ ~rcv[r].recording_started
    /\ nev' = nev + 1
    /\ \/ done'.kind = "cmd" /\ done'.cmd.action = "stop" /\ done'.r = r
       \/ \E t \in tasks' : t.kind = "cmd" /\ t.cmd.action = "stop" /\ t.r = r /\ t.id = nev'
\* the step is the ended event of the last track of session r while the flag
\* is false: on_ended calls stop_recording
LastEndedWhileIdle(r) ==
    /\ r \in DOMAIN rcv /\ ~rcv[r].recording_started
    /\ rcv[r].tracks # <<>> /\ rcv'[r].tracks = <<>>

\* C6: stop_recording called while the recording-active flag is false changes
\* nothing: the destination set, the track set, the recorder mapping and the
\* flag stay as they are, no recorder's stop is invoked and none is awaited,
\* and the stop command answers at once with status ok.  Called by on_ended,
\* after the track has been taken out, it changes nothing either.
C6_StopWhenNotRecording ==
    [][ \A r \in DOMAIN rcv :
          /\ StopWhileIdle(r) =>
                /\ Orchestrator(rcv', r) = Orchestrator(rcv, r)
                /\ recs' = recs
                /\ done'.kind = "cmd" /\ done'.cmd.action = "stop"
                /\ done'.out = << Resp("ok", "stop", <<>>) >>
          /\ LastEndedWhileIdle(r) =>
                /\ rcv'[r].rtmp_urls = rcv[r].rtmp_urls
                /\ rcv'[r].recorders = rcv[r].recorders
                /\ ~rcv'[r].recording_started
                /\ recs' = recs
                /\ \A t \in tasks' : t.r = r /\ t.kind = "ended" =>
                                            t.tag \notin Range(rcv[r].tracks) ]_vars

\* a stop command has been answered while a start command is suspended that
\* has registered a Recorder but not yet set the flag: the Recorder runs on
C6_Witness ==
    /\ StopCompleted /\ done.nstop = 0 /\ done.out = << Resp("ok", "stop", <<>>) >>
    /\ ~rcv[done.r].recording_started
    /\ \E u \in DOMAIN rcv[done.r].recorders : LiveRecs(done.r, u) # {}

\* the teardown that the ended event of the last track of session r has
\* triggered while recording was active completes in this step: the handler
\* suspended in stop_recording returns, or, with an empty mapping, on_ended
\* runs stop_recording through at once
EndedTeardownDone(r) ==
    \/ /\ sup' # "done"
       /\ \E t \in tasks : /\ t.kind = "ended" /\ t.r = r /\ t.pc = "stop_gather"
                           /\ \A x \in tasks' : ~Same(x, t)
    \/ /\ rcv[r].recording_started /\ DOMAIN rcv[r].recorders = {}
       /\ rcv[r].tracks # <<>> /\ rcv'[r].tracks = <<>>

\* C7: whenever recording is active and a track-ended event removes the last
\* track, all Recorders are stopped and the recorder mapping is emptied, and a
\* status command handled after the teardown reports recording = false and
\* active_recorders = 0: when the teardown completes no Recorder of the
\* session is live, the mapping is empty and status would report just that.
C7_TeardownOnLastTrackEnded ==
    [][ \A r \in DOMAIN rcv :
          EndedTeardownDone(r) =>
              /\ \A i \in DOMAIN recs' : recs'[i].r = r => recs'[i].st # "started"
              /\ rcv'[r].recorders = << >>
              /\ ~StatusReply([rcv |-> rcv'], r).recording
              /\ StatusReply([rcv |-> rcv'], r).active_recorders = 0 ]_vars

\* a command has just completed
Completed == done.kind = "cmd"
\* the responses that _start_recorder sends
StartResponses == { "started", "failed_start", "cannot_connect", "no_tracks" }
\* the recorder starts attempted on behalf of a completed command: one for
\* each destination of a start that found recording not active, at most one
\* for an add_url, none for the other commands
Attempts(t) ==
    CASE t.cmd.form = "obj" /\ t.cmd.action = "start" -> Len(t.snap)
      [] t.cmd.form = "obj" /\ t.cmd.action = "add_url" ->
            IF t.att = << >> THEN 0 ELSE 1
      [] OTHER -> 0

\* C8 as stated: every command received while the command channel is open
\* produces exactly one response on that channel, whatever the action and
\* the number of destinations (here: of the commands all of whose responses
\* found the channel open).
C8_ExactlyOneResponse == (Completed /\ done.dropped = 0) => Len(done.out) = 1

\* C8 amended: a command produces one response for each recorder start
\* attempted on its behalf and then exactly one reply of handle_command;
\* each of them is sent if the channel is open at that moment and dropped
\* otherwise.
C8_OneReplyPlusOnePerAttempt ==
    Completed =>
        /\ Len(done.out) + done.dropped = Attempts(done) + 1
        /\ Cardinality(DOMAIN done.att) = Attempts(done)
        /\ done.dropped = 0 =>
              /\ \A i \in 1..Attempts(done) : done.out[i].msg \in StartResponses
              /\ done.out[Len(done.out)].msg \notin StartResponses

\* a start over two destinations has completed with three responses on the
\* open channel
C8_Witness ==
    /\ Completed /\ done.cmd.action = "start" /\ done.dropped = 0
    /\ Len(done.snap) = 2 /\ Len(done.out) = 3

\* the destinations of session r that have a live Recorder, in the widest
\* reading: a Recorder is live from the return of start() to the return of
\* stop()
WithLiveRecorder(r) ==
    { u \in AllUrls : \E i \in DOMAIN recs :
          recs[i].r = r /\ recs[i].url = u /\ recs[i].st \in { "started", "stopping" } }
\* what the claim says a status response carries
StatusClaimed(r) ==
    [Resp("ok", "status", <<>>) EXCEPT
        !.recording = rcv[r].recording_started,
        !.urls = rcv[r].rtmp_urls,
        !.tracks = Len(rcv[r].tracks),
        !.active_recorders = Cardinality(WithLiveRecorder(r))]
\* the step handles a status command while the process is running
StatusStep == sup = "run" /\ done'.kind = "cmd" /\ done'.cmd.action = "status"

\* C9: the status command is a pure read: it changes no orchestrator state,
\* and its response carries exactly the current recording-active flag, the
\* full destination list, the number of active tracks and the number of
\* destinations that currently have a live Recorder (so ok, false, [], 0, 0 on
\* a session without destination and media).
C9_StatusReport ==
    [][ StatusStep =>
          /\ rcv' = rcv /\ recs' = recs
          /\ done'.out = << StatusClaimed(done'.r) >> ]_vars

\* C10: at most one session is non-terminal at a time: a new offer that
\* arrives while a session exists is taken up, the prior session is torn down
\* (its Recorders stopped, its engine closed) and only then the new session
\* negotiated.  Offers are taken up by the receive loop alone, so as long as
\* the supervisor runs with a session and an open websocket the receive loop
\* is alive: reading, or awaiting the handler of an envelope.
C10_NewOfferReplacesSession ==
    (cur # 0 /\ sup = "run" /\ ws = "open") => lis.pc # "dead"

\* the handler of the ended event of the last track and the handler of a stop
\* command are both inside stop_recording on session r, suspended in its
\* gather, and no other handler is in flight
StopsOverlap(r) ==
    \E a, b \in tasks :
        /\ a.r = r /\ a.kind = "ended" /\ a.pc = "stop_gather"
        /\ b.r = r /\ b.kind = "cmd" /\ b.cmd.action = "stop" /\ b.pc = "stop_gather"
        /\ InFlight(r) = { a, b }

\* C11: when the ended event that empties the track set and a stop command
\* both call stop_recording and overlap at its await, only one of the two
\* performs the stop work: no Recorder of the session has had its stop()
\* invoked more than once, and the two callers have not both asked Recorders
\* to stop.
C11_StopWorkDoneOnce ==
    \A r \in DOMAIN rcv :
        StopsOverlap(r) =>
            /\ \A i \in DOMAIN recs : recs[i].r = r => recs[i].stops <= 1
            /\ \A a, b \in InFlight(r) : a # b => ~(a.nstop > 0 /\ b.nstop > 0)

\* the supervisor has left its run loop and its finally clause has run to
\* the end, a session existing
TornDown == sup = "done" /\ cur # 0

\* C12: when the supervisor is interrupted or otherwise leaves its run loop,
\* the teardown stops every Recorder of the current session, closes the
\* peer-session engine and closes the signaling connection, whatever commands
\* were in flight: once the teardown has run, no Recorder of the session is
\* live, the engine is closed and the websocket is closed.
C12_TeardownOnExit ==
    TornDown =>
        /\ \A u \in AllUrls : LiveRecs(cur, u) = {}
        /\ rcv[cur].conn = "closed"
        /\ ws = "closed"

\* the supervisor leaves its run loop in this step
LeavesRunLoop == sup = "run" /\ sup' # "run"
\* the teardown that follows was entered through the break of the loop
ByBreak(ts) == \E t \in ts : t.kind = "close" /\ t.tag = "break"

\* C13: the supervisor loop keeps running until an explicit interruption: no
\* session event (the engine reaching the closed or failed state, all tracks
\* ending, the recording stopping) makes the process leave its run loop, so
\* every step that leaves the loop is the interruption.
C13_RunsUntilInterrupted == [][ LeavesRunLoop => ~ByBreak(tasks') ]_vars

\* the malformed envelopes: text that is not JSON, JSON that is not an
\* object, an OFFER whose payload holds no session description
Malformed == { NotJson, Num, EmptyOffer(P2) }
\* the receive loop reads a malformed envelope in this step
ReadsMalformed ==
    /\ lis.pc = "recv" /\ inbox # <<>> /\ Head(inbox) \in Malformed
    /\ inbox' = Tail(inbox) /\ ws' = "open" /\ sup' = "run"
\* the engine rejects the session description of an offer in this step
OfferRejected ==
    /\ lis.pc = "offer_remote" /\ lis'.pc # "offer_answer"
    /\ ws' = "open" /\ sup' = "run"

\* C14: a malformed inbound envelope is discarded and never terminates the
\* receive loop: after an envelope that is not parseable JSON, that is JSON
\* but not an object, or that is an OFFER whose payload cannot be negotiated,
\* the loop is back at reading the connection, so that every later envelope
\* is still dispatched.
C14_MalformedEnvelopeDiscarded ==
    [][ (ReadsMalformed \/ OfferRejected) => lis'.pc = "recv" ]_vars

\* the payload.candidate of the CANDIDATE envelope the receive loop is about
\* to read
InboundCandidate == Get(Get(Head(inbox), "payload"), "candidate")
ReadsCandidate ==
    /\ lis.pc = "recv" /\ inbox # <<>> /\ inbox' = Tail(inbox)
    /\ Head(inbox) \in { CandidateEnvelope(cd) : cd \in CandidateData }
    /\ ws' = "open" /\ sup' = "run"
\* the payloads the claim calls acceptable: an object whose candidate member
\* is a non-empty string holding a candidate line, with or without prefix
Acceptable(cd) ==
    /\ IsDict(cd) /\ Get(cd, "candidate").k = "str"
    /\ Get(cd, "candidate").s \in { << "candidate:", "good" >>, << "good" >> }
\* the engine has a candidate to take in, add_ice_candidate awaiting it
Submitted(l) == l.pc = "candidate"

\* C15: add_ice_candidate never raises, whatever the payload: the receive
\* loop survives each CANDIDATE envelope.  A payload with a non-empty, well-
\* formed candidate string is submitted to the engine of the session without
\* the "candidate:" prefix and with its sdpMid and sdpMLineIndex; any other
\* payload, and any payload before a session exists, submits nothing and
\* changes no session state; a candidate the engine rejects changes none
\* either, and the loop goes on reading.
C15_CandidateHandling ==
    [][ /\ ReadsCandidate =>
              /\ lis'.pc \in { "recv", "candidate" }
              /\ rcv' = rcv /\ cur' = cur /\ tasks' = tasks
              /\ IF cur # 0 /\ Acceptable(InboundCandidate)
                 THEN /\ Submitted(lis')
                      /\ lis'.cand = [candidate |-> << "good" >>,
                                      sdpMid |-> Get(InboundCandidate, "sdpMid"),
                                      sdpMLineIndex |-> Get(InboundCandidate, "sdpMLineIndex")]
                 ELSE lis' = lis
        /\ Submitted(lis) =>
              /\ lis' = Lis("recv")
              /\ rcv' # rcv =>
                    rcv' = [rcv EXCEPT ![cur].candidates = @ \cup { lis.cand }] ]_vars

\* the session has taken in a candidate that came with the prefix, with both
\* alignment fields, and the loop reads on, a malformed one being next
C15_Witness ==
    /\ cur = 1 /\ lis.pc = "recv"
    /\ [candidate |-> << "good" >>, sdpMid |-> Str(<< "0" >>), sdpMLineIndex |-> Num]
            \in rcv[1].candidates
    /\ inbox # <<>> /\ ~Acceptable(Get(Get(Head(inbox), "payload"), "candidate"))

\* the commands the claim is about, each with the error response it expects
Rejected ==
    { BadJson, Cmd("bogus", Null), Cmd("add_url", Null), Cmd("remove_url", Null) }
ErrorFor(c) ==
    CASE c.form = "invalid" -> Resp("error", "invalid_json", <<>>)
      [] c.action \in { "add_url", "remove_url" } -> Resp("error", "url_required", <<>>)
      [] OTHER -> Resp("error", "unknown_action", << c.action >>)
\* session r receives one of these commands in this step
ReceivesRejected(r) ==
    /\ r \in DOMAIN rcv /\ nev' = nev + 1
    /\ done'.kind = "cmd" /\ done'.r = r /\ done'.id = nev' /\ done'.cmd \in Rejected

\* C16: a command with an unknown action, a command that is not valid JSON,
\* and an add_url / remove_url without url each produce one response with
\* status error (naming the action, indicating invalid input, saying that a
\* url is required), leave the destination set, the track set, the recorder
\* mapping, the recording flag and every Recorder as they are, and leave the
\* channel open for later commands, the handler having returned.
C16_RejectedCommands ==
    [][ \A r \in DOMAIN rcv :
          ReceivesRejected(r) =>
              /\ done'.out = << ErrorFor(done'.cmd) >> /\ done'.dropped = 0
              /\ Orchestrator(rcv', r) = Orchestrator(rcv, r)
              /\ recs' = recs
              /\ rcv'[r].dc = "open" /\ rcv'[r].conn = "connected"
              /\ \A t \in tasks' : ~Same(t, done') ]_vars

\* a command with an unknown action has been answered while the session is
\* recording to a destination
C16_Witness ==
    /\ done.kind = "cmd" /\ done.cmd = Cmd("bogus", Null)
    /\ done.out = << Resp("error", "unknown_action", << "bogus" >>) >>
    /\ rcv[done.r].recording_started
    /\ \E u \in DOMAIN rcv[done.r].recorders : LiveRecs(done.r, u) # {}

\* an OFFER envelope whose payload holds a session description
OfferWithDescription(e) ==
    /\ IsDict(e) /\ Get(e, "type") = Str(<< "OFFER" >>)
    /\ IsDict(Get(e, "payload")) /\ Truthy(Get(Get(e, "payload"), "sdp"))
\* the envelope types for which the client has nothing to call
NoHandlerTypes == { Str(<< "OPEN" >>), Str(<< "LEAVE" >>), Str(<< "ERROR" >>), Str(<< "HEARTBEAT" >>) }

\* C17: for an inbound OFFER envelope with a session description the
\* signaling client invokes the offer handler once, with the envelope's whole
\* payload (the session description together with the connectionId) and the
\* source peer; OPEN, LEAVE, ERROR and unknown types invoke no handler.  Said
\* of the envelope the receive loop is about to read.
C17_OfferDispatch ==
    (lis.pc = "recv" /\ inbox # <<>> /\ IsDict(Head(inbox))) =>
        LET e == Head(inbox) IN
        /\ OfferWithDescription(e) =>
                _handle_message(e) = Dispatch("offer", Get(e, "payload"), Get(e, "src"))
        /\ Get(e, "type") \in NoHandlerTypes => _handle_message(e).call = "none"

\* the handler of an add_url command for address u on session r
IsAdd(t, r, u) == t.kind = "cmd" /\ t.r = r /\ t.cmd.action = "add_url" /\ t.url = u
\* the command arrives in this step
AddArrives(r, u) ==
    /\ nev' = nev + 1
    /\ \/ IsAdd(done', r, u) /\ done'.id = nev'
       \/ \E t \in tasks' : IsAdd(t, r, u) /\ t.id = nev'
\* the handler, suspended in _start_recorder, goes on in this step
AddResumes(r, u) ==
    \E t \in tasks :
        /\ IsAdd(t, r, u) /\ t.pc \in { "sr_probe", "sr_start" }
        /\ \/ Same(done', t)
           \/ \E x \in tasks' : Same(x, t) /\ x.pc # t.pc
\* the Recorders of the other destinations stay as they are: their entries
\* in the mapping and the Recorder objects themselves
OthersUntouched(r, u) ==
    /\ \A v \in AllUrls \ { u } :
          /\ v \in DOMAIN rcv[r].recorders <=> v \in DOMAIN rcv'[r].recorders
          /\ v \in DOMAIN rcv[r].recorders => rcv'[r].recorders[v] = rcv[r].recorders[v]
    /\ \A i \in DOMAIN recs :
          (recs[i].r = r /\ recs[i].url # u) => (i \in DOMAIN recs' /\ recs'[i] = recs[i])

\* C18: add_destination of an address not yet in the set, while recording is
\* active and a track exists, starts a Recorder for exactly that destination
\* (one start is attempted, for it alone, and if it succeeds the destination
\* has a live Recorder) and leaves the Recorder of every other destination
\* untouched, neither stopped nor replaced; if recording is not active or
\* there is no track, it only appends the address and starts no Recorder.
C18_AddStartsOnlyNew ==
    [][ \A r \in DOMAIN rcv : \A u \in AllUrls :
          /\ (AddArrives(r, u) \/ AddResumes(r, u)) => OthersUntouched(r, u)
          /\ (AddArrives(r, u) /\ u \notin Range(rcv[r].rtmp_urls)) =>
                /\ rcv'[r].rtmp_urls = Append(rcv[r].rtmp_urls, u)
                /\ IF rcv[r].recording_started /\ rcv[r].tracks # <<>>
                   THEN \/ \E t \in tasks' : /\ IsAdd(t, r, u)
                                             /\ t.pc \in { "sr_probe", "sr_start" }
                        \/ IsAdd(done', r, u) /\ DOMAIN done'.att = { u }
                   ELSE /\ recs' = recs /\ rcv'[r].recorders = rcv[r].recorders
                        /\ IsAdd(done', r, u) /\ done'.att = << >>
                        /\ done'.out = << Resp("ok", "add_url", u) >>
          /\ (IsAdd(done', r, u) /\ done'.att # << >>) =>
                /\ DOMAIN done'.att = { u }
                /\ done'.att[u] = "ok" =>
                      /\ u \in DOMAIN rcv'[r].recorders
                      /\ recs'[rcv'[r].recorders[u]].st = "started"
                      /\ recs'[rcv'[r].recorders[u]].url = u ]_vars

\* an add_url during a recording has started a Recorder for the new
\* destination while the Recorder of the first destination runs on
C18_Witness ==
    /\ IsAdd(done, done.r, UB) /\ UB \in DOMAIN done.att /\ done.att[UB] = "ok"
    /\ DOMAIN rcv[done.r].recorders = { UA, UB }
    /\ LiveRecs(done.r, UA) = { rcv[done.r].recorders[UA] }
    /\ LiveRecs(done.r, UB) = { rcv[done.r].recorders[UB] }
    /\ rcv[done.r].recorders[UA] # rcv[done.r].recorders[UB]

\* the handler of a remove_url command for address u on session r
IsRemove(t, r, u) == t.kind = "cmd" /\ t.r = r /\ t.cmd.action = "remove_url" /\ t.url = u
\* the command arrives in this step
RemoveArrives(r, u) ==
    /\ nev' = nev + 1
    /\ \/ IsRemove(done', r, u) /\ done'.id = nev'
       \/ \E t \in tasks' : IsRemove(t, r, u) /\ t.id = nev'
\* the removal t, suspended in recorder.stop(), completes in this step
RemoveCompletes(t, r, u) ==
    t \in tasks /\ IsRemove(t, r, u) /\ t.pc = "rm_stop" /\ Same(done', t)

\* C19: a removal takes the address out of the destination set; when it
\* completes, the Recorder the address had when the removal began has been
\* asked to stop and is no longer in the mapping, also when an add_url for
\* the same address or a stop_recording ran while the removal was suspended;
\* and the removal does not delete the mapping entry of a Recorder that a
\* later add_url has created for the address, which is a destination again.
C19_RemoveStopsOwnRecorder ==
    [][ \A r \in DOMAIN rcv : \A u \in AllUrls :
          /\ RemoveArrives(r, u) => u \notin Range(rcv'[r].rtmp_urls)
          /\ \A t \in tasks :
                RemoveCompletes(t, r, u) =>
                    /\ recs[t.rec].stops >= 1
                    /\ \A v \in DOMAIN rcv'[r].recorders : rcv'[r].recorders[v] # t.rec
                    /\ ( /\ u \in Range(rcv[r].rtmp_urls)
                         /\ u \in DOMAIN rcv[r].recorders
                         /\ rcv[r].recorders[u] # t.rec )
                       => ( /\ u \in DOMAIN rcv'[r].recorders
                            /\ rcv'[r].recorders[u] = rcv[r].recorders[u] ) ]_vars

\* C20: every arriving track is attached to every live Recorder, so that in
\* every reachable state each live Recorder (registered in the mapping and
\* started) has every track of the active track set attached, also for a
\* track that arrived while a start_recording or the recorder start of an
\* add_url was suspended between attaching the tracks and completing.
C20_LiveRecordersHaveAllTracks ==
    \A r \in DOMAIN rcv : \A u \in DOMAIN rcv[r].recorders :
        recs[rcv[r].recorders[u]].st = "started" =>
            Range(rcv[r].tracks) \subseteq recs[rcv[r].recorders[u]].tracks

\* the teardown of session r completes in this step: the supervisor had left
\* its loop because the engine, having reported "failed", was closed
\* (main.py:70-71, 430-431), and close() now returns
FailureTeardownDone(r) ==
    /\ sup' = "done" /\ r = cur
    /\ \E t \in tasks : /\ t.kind = "close" /\ t.tag = "break" /\ t.r = r
                        /\ t.pc = "close_pc" /\ rcv[r].conn = "closed"

\* C21: when the engine reports the failed connection state, the engine is
\* closed and the whole session is torn down: when that teardown has run,
\* the engine is closed, no Recorder of the session is live and the
\* recording-active flag is false.
C21_FailedSessionTornDown ==
    [][ \A r \in DOMAIN rcv :
          FailureTeardownDone(r) =>
              /\ rcv'[r].conn = "closed"
              /\ \A u \in AllUrls :
                    \A i \in DOMAIN recs' :
                        (recs'[i].r = r /\ recs'[i].url = u) => recs'[i].st # "started"
              /\ ~rcv'[r].recording_started ]_vars

\* a stop_recording on session r, suspended in its gather, goes on in this
\* step and clears the mapping (main.py:264)
StopClears(r) ==
    /\ ~(sup # "done" /\ sup' = "done")
    /\ \E t \in tasks : /\ t.r = r /\ t.pc = "stop_gather"
                        /\ \A x \in tasks' : Same(x, t) => x.pc # "stop_gather"

\* C22: no Recorder is dropped without being stopped: stop_recording removes
\* from the mapping only entries of Recorders that were asked to stop, also
\* when an add_url or a start has registered a new Recorder while it was
\* suspended waiting for the stops; every entry it clears belongs to a
\* Recorder that is no longer live.
C22_StopClearsOnlyStopped ==
    [][ \A r \in DOMAIN rcv :
          StopClears(r) =>
              \A u \in DOMAIN rcv[r].recorders :
                  u \notin DOMAIN rcv'[r].recorders =>
                      recs[rcv[r].recorders[u]].st # "started" ]_vars

\* a start command has completed whose start_recording ran the recorder
\* starts while the session had no track
StartOnNoTracks ==
    /\ done.kind = "cmd" /\ done.cmd.action = "start" /\ done.snap # <<>>
    /\ rcv[done.r].tracks = <<>>
\* recording is flagged active on session r although it has no Recorder,
\* and no handler is running
Barren(r) ==
    /\ rcv[r].recording_started /\ rcv[r].recorders = << >> /\ InFlight(r) = {}
    /\ \A i \in DOMAIN recs : recs[i].r = r => recs[i].st \notin { "starting", "started" }
TrackArrives(r) == Len(rcv'[r].tracks) = Len(rcv[r].tracks) + 1
\* nothing is started or registered, and the flag is set
NothingStarted(r) ==
    /\ rcv[r].recorders = << >> /\ rcv[r].recording_started
    /\ \A i \in DOMAIN recs : recs[i].r = r => recs[i].st \notin { "starting", "started" }

\* C23 as stated: when start_recording runs with a non-empty destination set
\* and an empty track set, no Recorder is started or registered, a "no media
\* tracks available" error is reported per destination, and the flag becomes
\* true.
C23_NoTracksErrorPerDestination ==
    StartOnNoTracks =>
        /\ NothingStarted(done.r)
        /\ Len(done.out) = Len(done.snap) + 1
        /\ \A i \in 1..Len(done.snap) : done.out[i] = Resp("error", "no_tracks", <<>>)

\* C23 amended: when start_recording runs with a non-empty destination set
\* and an empty track set, no Recorder is started or registered and one
\* error is reported per destination ("no media tracks available", unless
\* the address lacks the rtmp scheme or the Recorder cannot be created,
\* which is then the error reported), yet the flag becomes true; from that
\* state an arriving track is attached to no Recorder, a further start
\* starts none, and the only step that creates a Recorder is an add_url of
\* a new address.
C23_StartWithoutTracks ==
    [][ /\ StartOnNoTracks' =>
              /\ \A r \in DOMAIN rcv : done'.r = r => NothingStarted(r)'
              /\ Len(done'.out) = Len(done'.snap) + 1
              /\ done'.out[Len(done'.out)].status = "ok"
              /\ \A i \in 1..Len(done'.snap) :
                    LET u == done'.snap[i] IN
                    /\ done'.out[i].status = "error"
                    /\ u \in DOMAIN done'.att
                    /\ done'.att[u] = "bad_scheme" <=> ~IsRtmp(u)
                    /\ done'.att[u] \in { "bad_scheme", "ctor_fail", "no_tracks" }
                    /\ done'.att[u] = "no_tracks" => done'.out[i] = Resp("error", "no_tracks", <<>>)
                    /\ done'.att[u] # "no_tracks" => done'.out[i].url = u
        /\ \A r \in DOMAIN rcv :
              /\ (Barren(r) /\ TrackArrives(r)) => (recs' = recs /\ Barren(r)')
              /\ (Barren(r) /\ StepOf("start")) =>
                    /\ recs' = recs /\ Barren(r)'
                    /\ done'.cmd.action = "start" /\ done'.snap = <<>> /\ done'.att = << >>
              /\ (Barren(r) /\ recs' # recs) =>
                    \E u \in AllUrls : AddArrives(r, u) /\ u \notin Range(rcv[r].rtmp_urls) ]_vars

\* a start on a session without tracks has set the flag; then a track has
\* arrived and a further start has been answered without starting anything
C23_Witness ==
    /\ nev = 3 /\ done.kind = "cmd" /\ done.id = 3 /\ done.cmd.action = "start"
    /\ done.snap = <<>> /\ Barren(done.r)
    /\ Len(rcv[done.r].tracks) = 1 /\ rcv[done.r].rtmp_urls # <<>>


\* C24: in every reachable state the keys of the destination-to-recorder
\* mapping of a session are a subset of its destination list: no Recorder
\* is registered for an address that has been removed.
C24_RecordersWithinDestinations ==
    \A r \in DOMAIN rcv : DOMAIN rcv[r].recorders \subseteq Range(rcv[r].rtmp_urls)


====
